---------------------------- MODULE Spec2Model ----------------------------
(***************************************************************************)
(* ABRSQOL: invert_quality_of_life (src/ABRSQOL/invert_quality_of_life.py) *)
(*                                                                         *)
(* The function is modelled as a state machine over one call: the six      *)
(* extracted arrays and the keyword arguments are the input, the derived   *)
(* arrays and the iteration state (A_hat, O_total, count) are the state.   *)
(*                                                                         *)
(* Numbers.  numpy computes in IEEE-754 doubles.  The model computes in    *)
(* exact rationals extended with the IEEE special values: a number is a    *)
(* pair <<n, d>> in lowest terms with d >= 0, where <<1,0>> is +inf,       *)
(* <<-1,0>> is -inf and <<0,0>> is NaN.  Rounding is not modelled.  The    *)
(* exponents the code takes (alpha*beta, alpha*(1-beta), 1-alpha, gamma,   *)
(* 1/gamma, -1) are restricted to -1, 0 and 1 so that every power is       *)
(* rational; xi is represented by exp(xi).                                 *)
(***************************************************************************)
EXTENDS Integers, Sequences, FiniteSets, TLC

(***************************************************************************)
(* Bounds of the model                                                     *)
(***************************************************************************)
MaxJ == 2

MaxTheta == 2

MaxIter == 2

(***************************************************************************)
(* Extended rational arithmetic (numpy float semantics without rounding)   *)
(***************************************************************************)
AbsInt(n) == IF n < 0 THEN -n ELSE n

SgnInt(n) == IF n < 0 THEN -1 ELSE IF n = 0 THEN 0 ELSE 1

RECURSIVE GCD(_, _)
GCD(a, b) == IF b = 0 THEN a ELSE GCD(b, a % b)

\* lowest terms; a zero denominator keeps only the sign: inf, -inf or NaN
Norm(n, d) ==
    IF d = 0 THEN <<SgnInt(n), 0>>
    ELSE LET s == IF d < 0 THEN -1 ELSE 1
             g == GCD(AbsInt(n), AbsInt(d))
         IN  <<(s * n) \div g, (s * d) \div g>>

Q(n) == <<n, 1>>

Frac(n, d) == Norm(n, d)

NaN == <<0, 0>>

Inf == <<1, 0>>

IsNaN(x) == x = NaN

IsFinite(x) == x[2] # 0

\* x * y : inf * 0 = NaN, NaN * y = NaN
Mul(x, y) ==
    LET g1 == GCD(AbsInt(x[1]), y[2])
        g2 == GCD(AbsInt(y[1]), x[2])
    IN  IF x[2] = 0 \/ y[2] = 0
        THEN <<SgnInt(x[1]) * SgnInt(y[1]), 0>>
        ELSE Norm((x[1] \div g1) * (y[1] \div g2), (x[2] \div g2) * (y[2] \div g1))

\* 1 / x : 1/0 = inf, 1/inf = 0, 1/NaN = NaN
Recip(x) ==
    IF x[1] < 0 THEN <<-x[2], -x[1]>> ELSE <<x[2], x[1]>>

\* x / y : 0/0 = NaN, x/0 = +-inf, inf/inf = NaN
Div(x, y) == Mul(x, Recip(y))

\* x + y : inf + (-inf) = NaN, NaN + y = NaN
Add(x, y) ==
    IF x[2] = 0 /\ y[2] = 0 THEN (IF x = y THEN x ELSE NaN)
    ELSE IF x[2] = 0 THEN x
    ELSE IF y[2] = 0 THEN y
    ELSE LET g == GCD(x[2], y[2])
         IN  Norm(x[1] * (y[2] \div g) + y[1] * (x[2] \div g), (x[2] \div g) * y[2])

Neg(x) == <<-x[1], x[2]>>

Sub(x, y) == Add(x, Neg(y))

Abs(x) == <<AbsInt(x[1]), x[2]>>

\* x > y : every comparison with NaN is False
Gt(x, y) ==
    IF IsNaN(x) \/ IsNaN(y) THEN FALSE
    ELSE IF x[2] = 0 /\ y[2] = 0 THEN x[1] > y[1]
    ELSE IF x[2] = 0 THEN x[1] > 0
    ELSE IF y[2] = 0 THEN y[1] < 0
    ELSE x[1] * y[2] > y[1] * x[2]

\* x ** e for e in {-1, 0, 1} : x ** 0 = 1 for every x, NaN included
Pow(x, e) ==
    IF e = 0 THEN Q(1) ELSE IF e = 1 THEN x ELSE Recip(x)

RECURSIVE SumSeq(_)
SumSeq(s) == IF s = <<>> THEN Q(0) ELSE Add(Head(s), SumSeq(Tail(s)))


(***************************************************************************)
(* Arrays.  A 2-d array of shape (J, Theta) is a record of its column      *)
(* count and its sequence of J rows, each a sequence of Theta numbers.     *)
(***************************************************************************)
Array(c, rows) == [ncol |-> c, v |-> rows]

\* the sequence of F(1), ..., F(n), built once
Vec(n, F(_)) == SubSeq([j \in 1..n |-> F(j)], 1, n)

\* the nr rows of nc cells F(j, t), built once
Mat(nr, nc, F(_, _)) == Vec(nr, LAMBDA j : Vec(nc, LAMBDA t : F(j, t)))

\* len(a)
Rows(a) == Len(a.v)

\* a.shape[1]
Cols(a) == a.ncol

\* a.sum(axis=0): one sum per column
SumAxis0(m, nc) == Vec(nc, LAMBDA t : SumSeq(Vec(Len(m), LAMBDA j : m[j][t])))

\* a.sum(): the sum of every cell
SumAll(m) == SumSeq(Vec(Len(m), LAMBDA j : SumSeq(m[j])))

(***************************************************************************)
(* Inputs: df after column extraction (lines 80-86) and the keyword        *)
(* arguments (lines 15-21)                                                 *)
(***************************************************************************)
\* locations the tables are built from: w, L, L_b, P_t, p_H, p_n
Locations ==
    { [w |-> 1, L |-> 1, L_b |-> 1, P_t |-> 1, p_H |-> 1, p_n |-> 1],
      [w |-> 2, L |-> 1, L_b |-> 2, P_t |-> 1, p_H |-> 2, p_n |-> 3],
      [w |-> 0, L |-> 2, L_b |-> 1, P_t |-> 2, p_H |-> 1, p_n |-> 1] }

\* how the Theta columns after the first are filled
Patterns == {"copy", "alternate"}

\* cell (j, t) of a per-Theta variable f of a table of locations
Cell(locs, pat, f, j, t) ==
    IF t = 1 \/ pat = "copy" THEN Q(locs[j][f])
    ELSE IF f = "w" THEN Q(1 + ((j + t) % 2))
    ELSE IF f = "L" THEN Q(1)
    ELSE Q(1 + (j % 2))

PerTheta(locs, pat, f, nc) ==
    Array(nc, Mat(Len(locs), nc, LAMBDA j, t : Cell(locs, pat, f, j, t)))

Price(locs, f) ==
    Array(1, Mat(Len(locs), 1, LAMBDA j, t : Q(locs[j][f])))

Table(locs, pat, nc) ==
    [L_b |-> PerTheta(locs, pat, "L_b", nc),
     L   |-> PerTheta(locs, pat, "L", nc),
     w   |-> PerTheta(locs, pat, "w", nc),
     P_t |-> Price(locs, "P_t"),
     p_H |-> Price(locs, "p_H"),
     p_n |-> Price(locs, "p_n")]

LocSeqs == UNION { [1..n -> Locations] : n \in 0..MaxJ }

Tables ==
    { Table(locs, pat, nc) : locs \in LocSeqs, pat \in Patterns, nc \in 0..MaxTheta }

\* an array of ones of the given shape
OnesArray(nr, nc) == Array(nc, Mat(nr, nc, LAMBDA j, t : Q(1)))

Names == {"L_b", "L", "w", "P_t", "p_H", "p_n"}

ThetaNames == {"L_b", "L", "w"}

\* tables of ones of every shape: up to two arrays deviate in their row
\* count and up to one in its column count
ShapeTables ==
    { [f \in Names |->
         OnesArray(IF f \in dr THEN nr2 ELSE nr,
                   IF f \in ThetaNames THEN (IF f \in dc THEN nc2 ELSE nc) ELSE 1)] :
      nr \in 0..MaxJ, nr2 \in 0..MaxJ, nc \in 0..MaxTheta, nc2 \in 0..MaxTheta,
      dr \in {s \in SUBSET Names : Cardinality(s) <= 2},
      dc \in {s \in SUBSET ThetaNames : Cardinality(s) <= 1} }

\* keyword arguments: alpha and beta in {0, 1} and gamma in {1, -1} keep the
\* exponents of lines 125, 126, 143, 153 integral; exp_xi is exp(xi)
Args ==
    { a \in [alpha : {0, 1}, beta : {0, 1}, gamma : {1, -1}, exp_xi : {1, 2},
             conv : {Frac(1, 2), Q(1)},
             tolerance : {Q(-1), Q(0), Frac(1, 4), Q(100000)},
             maxiter : -1..MaxIter] :
        /\ (a.alpha = 0 => a.beta = 1)
        /\ (a.gamma = -1 => a.exp_xi = 2) }

\* the arguments the tables of ones are called with
OnesArgs ==
    [alpha |-> 1, beta |-> 1, gamma |-> 1, exp_xi |-> 2, conv |-> Frac(1, 2),
     tolerance |-> Q(0), maxiter |-> MaxIter]

\* With xi # 0 the exact numerators and denominators of a pass grow past the
\* integers of the checker after two passes or with a third row or column,
\* so those calls keep to two rows, two columns and two passes; with xi = 0
\* (exp_xi = 1) every table and every maxiter up to the bounds is called.
InRange(d, a) ==
    a.exp_xi = 1 \/ (Rows(d.L_b) <= 2 /\ Cols(d.L_b) <= 2 /\ a.maxiter <= 2)

(***************************************************************************)
(* State of one call of invert_quality_of_life                             *)
(***************************************************************************)
VARIABLES
    df,              \* the six extracted arrays (lines 80-86), read-only
    args,            \* alpha, beta, gamma, exp(xi), conv, tolerance, maxiter
    pc,              \* "extracted", "loop", "returned" or "raised"
    err,             \* the exception raised, "" when none
    J,               \* line 96
    Theta,           \* line 104
    L_b,             \* line 112: L_b rescaled to the column sums of L
    L_hat,           \* line 116
    w_hat,           \* line 118
    P_hat,           \* line 125, one number per row
    P,               \* line 126, one number per row
    A_hat,           \* lines 130, 161 (A is the same array: lines 131, 162)
    A_hat_up,        \* line 153: the undamped guess of the last pass
    O_vector_total,  \* line 133
    O_total,         \* lines 134, 157
    count,           \* lines 135, 165
    ret,             \* the returned vector (line 169)
    first            \* outcome of the call before this one, <<>> when none

vars == <<df, args, pc, err, J, Theta, L_b, L_hat, w_hat, P_hat, P, A_hat,
          A_hat_up, O_vector_total, O_total, count, ret, first>>

Unset == <<>>

\* a larger starting value
O_total_start_big == 10 * 100000

\* O_total = 100000 (line 134)
O_total_start == 100000

\* count = 1 (line 135)
count_start == 1

\* the state on entry, after the extraction of lines 80-86
Entry(d, a) ==
    /\ df = d
    /\ args = a
    /\ pc = "extracted"
    /\ err = ""
    /\ J = -1
    /\ Theta = -1
    /\ L_b = Unset
    /\ L_hat = Unset
    /\ w_hat = Unset
    /\ P_hat = Unset
    /\ P = Unset
    /\ A_hat = Unset
    /\ A_hat_up = Unset
    /\ O_vector_total = Unset
    /\ O_total = Unset
    /\ count = 0
    /\ ret = Unset

Init ==
    /\ \/ \E d \in Tables, a \in Args : InRange(d, a) /\ Entry(d, a)
       \/ \E d \in ShapeTables : Entry(d, OnesArgs)
    /\ first = Unset

(***************************************************************************)
(* Dimension checks (lines 89-104)                                         *)
(***************************************************************************)
\* line 90: len(set([len(L_b), ..., len(p_n)])) != 1
RowMismatch(d) == Cardinality({Rows(d[f]) : f \in Names}) # 1

\* a column check that leaves w out
ColMismatch_without_w(d) == Cardinality({Cols(d.L_b), Cols(d.L)}) # 1

\* line 99: len(set([L_b.shape[1], L.shape[1], w.shape[1]])) != 1
ColMismatch(d) == Cardinality({Cols(d[f]) : f \in ThetaNames}) # 1

Raise(e) ==
    /\ pc' = "raised"
    /\ err' = e
    /\ UNCHANGED <<df, args, J, Theta, L_b, L_hat, w_hat, P_hat, P, A_hat,
                   A_hat_up, O_vector_total, O_total, count, ret, first>>

\* lines 90-93
RaiseRowMismatch ==
    /\ pc = "extracted"
    /\ RowMismatch(df)
    /\ Raise("ValueError: variables do not have the same length")

\* lines 96, 99-101
RaiseColMismatch ==
    /\ pc = "extracted"
    /\ ~RowMismatch(df)
    /\ ColMismatch(df)
    /\ pc' = "raised"
    /\ err' = "ValueError: variables do not have the same number of columns"
    /\ J' = Rows(df.L_b)
    /\ UNCHANGED <<df, args, Theta, L_b, L_hat, w_hat, P_hat, P, A_hat,
                   A_hat_up, O_vector_total, O_total, count, ret, first>>

(***************************************************************************)
(* Preprocessing (lines 109-135)                                           *)
(***************************************************************************)
\* lines 110-112
L_b_adjusted(d, nc) ==
    LET L_bar == SumAxis0(d.L.v, nc)
        L_b_sum == SumAxis0(d.L_b.v, nc)
        L_b_adjust == Vec(nc, LAMBDA t : Div(L_bar[t], L_b_sum[t]))
    IN  Mat(Rows(d.L_b), nc, LAMBDA j, t : Mul(d.L_b.v[j][t], L_b_adjust[t]))

\* lines 116, 118, 120-122: x / x[0]
Relative(m, nc) ==
    Mat(Len(m), nc, LAMBDA j, t : Div(m[j][t], m[1][t]))

\* lines 125, 126: the price level of row j from the three price columns
PriceLevel(pt, pn, ph, a) ==
    Vec(Len(pt), LAMBDA j :
        Mul(Mul(Pow(pt[j][1], a.alpha * a.beta),
                Pow(pn[j][1], a.alpha * (1 - a.beta))),
            Pow(ph[j][1], 1 - a.alpha)))

\* line 130
Ones(nr, nc) == Mat(nr, nc, LAMBDA j, t : Q(1))

\* lines 96, 104, 109-135 with at least one row
Prepare ==
    /\ pc = "extracted"
    /\ ~RowMismatch(df)
    /\ ~ColMismatch(df)
    /\ Rows(df.L_b) >= 1
    /\ J' = Rows(df.L_b)
    /\ Theta' = Cols(df.L_b)
    /\ L_b' = L_b_adjusted(df, Cols(df.L_b))
    /\ L_hat' = Relative(df.L.v, Cols(df.L_b))
    /\ w_hat' = Relative(df.w.v, Cols(df.L_b))
    /\ P_hat' = PriceLevel(Relative(df.P_t.v, 1), Relative(df.p_n.v, 1),
                           Relative(df.p_H.v, 1), args)
    /\ P' = PriceLevel(df.P_t.v, df.p_n.v, df.p_H.v, args)
    /\ A_hat' = Ones(Rows(df.L_b), Cols(df.L_b))
    /\ O_vector_total' = <<>>
    /\ O_total' = Q(O_total_start)
    /\ count' = count_start
    /\ pc' = "loop"
    /\ UNCHANGED <<df, args, err, A_hat_up, ret, first>>

\* lines 96, 104, 110-116 with no row: L[0] raises IndexError
PrepareNoRow ==
    /\ pc = "extracted"
    /\ ~RowMismatch(df)
    /\ ~ColMismatch(df)
    /\ Rows(df.L_b) = 0
    /\ J' = 0
    /\ Theta' = Cols(df.L_b)
    /\ L_b' = <<>>
    /\ pc' = "raised"
    /\ err' = "IndexError: index 0 is out of bounds for axis 0"
    /\ UNCHANGED <<df, args, L_hat, w_hat, P_hat, P, A_hat, A_hat_up,
                   O_vector_total, O_total, count, ret, first>>


(***************************************************************************)
(* The loop (lines 138-165)                                                *)
(***************************************************************************)
\* a loop test that stops one pass early
LoopCond_strict(o, c, a) == Gt(o, a.tolerance) /\ c < a.maxiter

\* a loop test that allows one pass more
LoopCond_late(o, c, a) == Gt(o, a.tolerance) /\ c <= a.maxiter + 1

\* a loop test that goes on at O_total = tolerance
LoopCond_geq(o, c, a) == ~Gt(a.tolerance, o) /\ ~IsNaN(o) /\ c <= a.maxiter

\* line 138: (O_total > tolerance) and (count <= maxiter)
LoopCond(o, c, a) == Gt(o, a.tolerance) /\ c <= a.maxiter

\* np.exp(xi) - 1 (lines 144, 147)
Expm1(a) == Q(a.exp_xi - 1)

\* 1 / gamma (line 153), for gamma in {1, -1}
InvGamma(a) == 1 \div a.gamma

\* line 143: nom = (A * w / P) ** gamma
Nom(A, wm, Pv, a) ==
    Mat(Len(A), Len(A[1]), LAMBDA j, t :
        Pow(Div(Mul(A[j][t], wm[j][t]), Pv[j]), a.gamma))

\* shares computed from nom itself, not from nom / nom.sum(axis=0)
PsiB_unscaled(nm, nc, a) ==
    Mat(Len(nm), nc, LAMBDA j, t :
        Pow(Add(Mul(Expm1(a), nm[j][t]), Q(1)), -1))

\* line 144: Psi_b = ((exp(xi) - 1) * nom / nom.sum(axis=0) + 1) ** -1
PsiB(nm, nc, a) ==
    LET nomsum == SumAxis0(nm, nc)
    IN  Mat(Len(nm), nc, LAMBDA j, t :
            Pow(Add(Div(Mul(Expm1(a), nm[j][t]), nomsum[t]), Q(1)), -1))

\* line 147: mathcal_L = (L_b * Psi_b).sum(axis=0) + L_b * Psi_b * (exp(xi) - 1)
MathcalL(Lb, psi, nc, a) ==
    LET LbPsi == Mat(Len(Lb), nc, LAMBDA j, t : Mul(Lb[j][t], psi[j][t]))
        tot == SumAxis0(LbPsi, nc)
    IN  Mat(Len(Lb), nc, LAMBDA j, t : Add(tot[t], Mul(LbPsi[j][t], Expm1(a))))

\* an update that skips line 150 and divides by mathcal_L itself
AHatUp_unnormalised(A, d, Lb, Lh, wh, Ph, Pv, nc, a) ==
    LET nm == Nom(A, d.w.v, Pv, a)
        psi == PsiB(nm, nc, a)
        mathcal_L == MathcalL(Lb, psi, nc, a)
    IN  Mat(Len(A), nc, LAMBDA j, t :
            Mul(Mul(Ph[j], Div(Q(1), wh[j][t])),
                Pow(Div(Lh[j][t], mathcal_L[j][t]), InvGamma(a))))

\* lines 143-153: A_hat_up = P_hat * (1 / w_hat) * (L_hat / mathcal_L_hat) ** (1 / gamma)
AHatUp(A, d, Lb, Lh, wh, Ph, Pv, nc, a) ==
    LET nm == Nom(A, d.w.v, Pv, a)
        psi == PsiB(nm, nc, a)
        mathcal_L == MathcalL(Lb, psi, nc, a)
        mathcal_L_hat == Relative(mathcal_L, nc)
    IN  Mat(Len(A), nc, LAMBDA j, t :
            Mul(Mul(Ph[j], Div(Q(1), wh[j][t])),
                Pow(Div(Lh[j][t], mathcal_L_hat[j][t]), InvGamma(a))))

\* a deviation that sums the signed differences
Deviation_signed(up, A, n) ==
    Div(SumAll(Mat(Len(A), Len(A[1]), LAMBDA j, t : Sub(up[j][t], A[j][t]))), Q(n))

\* line 157: O_total = abs(A_hat_up - A_hat).sum() / J
Deviation(up, A, n) ==
    Div(SumAll(Mat(Len(A), Len(A[1]), LAMBDA j, t : Abs(Sub(up[j][t], A[j][t])))),
        Q(n))

\* an update that takes the new guess undamped
Damped_full(up, A, a) == up

\* line 161: A_hat = conv * A_hat_up + (1 - conv) * A_hat
Damped(up, A, a) ==
    Mat(Len(A), Len(A[1]), LAMBDA j, t :
        Add(Mul(a.conv, up[j][t]), Mul(Sub(Q(1), a.conv), A[j][t])))

\* one pass of the loop body (lines 138-165)
LoopPass ==
    /\ pc = "loop"
    /\ LoopCond(O_total, count, args)
    /\ A_hat_up' = AHatUp(A_hat, df, L_b, L_hat, w_hat, P_hat, P, Theta, args)
    /\ O_total' = Deviation(A_hat_up', A_hat, J)
    /\ O_vector_total' = Append(O_vector_total, O_total')
    /\ A_hat' = Damped(A_hat_up', A_hat, args)
    /\ count' = count + 1
    /\ UNCHANGED <<df, args, pc, err, J, Theta, L_b, L_hat, w_hat, P_hat, P, ret, first>>

\* A[:, 0] (line 169)
Column0(A) == Vec(Len(A), LAMBDA j : A[j][1])

\* the loop ends and the vector is returned (lines 138, 167-169)
Return ==
    /\ pc = "loop"
    /\ ~LoopCond(O_total, count, args)
    /\ Theta >= 1
    /\ ret' = Column0(A_hat)
    /\ pc' = "returned"
    /\ UNCHANGED <<df, args, err, J, Theta, L_b, L_hat, w_hat, P_hat, P, A_hat,
                   A_hat_up, O_vector_total, O_total, count, first>>

\* the loop ends and A[:, 0] raises IndexError: the arrays have no column
ReturnNoColumn ==
    /\ pc = "loop"
    /\ ~LoopCond(O_total, count, args)
    /\ Theta = 0
    /\ Raise("IndexError: index 0 is out of bounds for axis 1")

Next ==
    \/ RaiseRowMismatch
    \/ RaiseColMismatch
    \/ Prepare
    \/ PrepareNoRow
    \/ LoopPass
    \/ Return
    \/ ReturnNoColumn

Spec == Init /\ [][Next]_vars


(***************************************************************************)
(* Two calls in a row, for the claims that relate two runs: the outcome of *)
(* the first call is kept in `first` and the function is entered again.    *)
(***************************************************************************)
Finished == pc \in {"returned", "raised"}

\* the number of passes of the loop body executed so far
Passes == Len(O_vector_total)

Outcome == [df |-> df, pc |-> pc, err |-> err, ret |-> ret, passes |-> Passes]

\* entry of the next call, with table d and the same keyword arguments
CallAgain(d) ==
    /\ Finished
    /\ first = Unset
    /\ first' = Outcome
    /\ df' = d
    /\ pc' = "extracted"
    /\ err' = ""
    /\ J' = -1
    /\ Theta' = -1
    /\ L_b' = Unset
    /\ L_hat' = Unset
    /\ w_hat' = Unset
    /\ P_hat' = Unset
    /\ P' = Unset
    /\ A_hat' = Unset
    /\ A_hat_up' = Unset
    /\ O_vector_total' = Unset
    /\ O_total' = Unset
    /\ count' = 0
    /\ ret' = Unset
    /\ UNCHANGED args

\* positive constants the wages are multiplied by
Scales == {2, 3}

\* the table with every value of w multiplied by c
ScaleW(d, c) ==
    [d EXCEPT !.w = Array(Cols(d.w),
                          Mat(Rows(d.w), Cols(d.w), LAMBDA j, t : Mul(Q(c), d.w.v[j][t])))]

CallScaled == \E c \in Scales : CallAgain(ScaleW(df, c))

\* tables that agree on the prices and on column 0 of w, L and L_b
AgreeOnColumn0(d, e) ==
    /\ Cols(d.L_b) >= 1 /\ Cols(e.L_b) >= 1
    /\ Cols(d.L) >= 1 /\ Cols(e.L) >= 1
    /\ Cols(d.w) >= 1 /\ Cols(e.w) >= 1
    /\ \A f \in Names \ ThetaNames : d[f] = e[f]
    /\ \A f \in ThetaNames :
          /\ Rows(d[f]) = Rows(e[f])
          /\ \A j \in 1..Rows(d[f]) : d[f].v[j][1] = e[f].v[j][1]

CallOtherColumns ==
    \E d \in Tables : AgreeOnColumn0(df, d) /\ InRange(d, args) /\ CallAgain(d)

NextScale == Next \/ CallScaled

SpecScale == Init /\ [][NextScale]_vars

NextColumns == Next \/ CallOtherColumns

SpecColumns == Init /\ [][NextColumns]_vars

(***************************************************************************)
(* Vocabulary of the claims                                                *)
(***************************************************************************)
\* the six arrays have one row count, the three per-Theta arrays one column count
SameRowCount(d) == \A f, g \in Names : Len(d[f].v) = Len(d[g].v)

SameColCount(d) == \A f, g \in ThetaNames : d[f].ncol = d[g].ncol

WellShaped(d) == SameRowCount(d) /\ SameColCount(d)

\* at least one row and at least one Theta column
NonEmpty(d) == Len(d.L_b.v) >= 1 /\ d.L_b.ncol >= 1

\* every value of the table is finite and positive
Positive(d) ==
    \A f \in Names : \A j \in 1..Len(d[f].v) : \A t \in 1..Len(d[f].v[j]) :
        d[f].v[j][t][1] > 0 /\ d[f].v[j][t][2] > 0

\* every location has the values of the first one
Identical(d) ==
    \A f \in Names : \A j \in 1..Len(d[f].v) : d[f].v[j] = d[f].v[1]

AllOnes(v) == \A j \in 1..Len(v) : v[j] = <<1, 1>>

Max(a, b) == IF a >= b THEN a ELSE b

\* x <= y, False when either is NaN
Le(x, y) == ~IsNaN(x) /\ ~IsNaN(y) /\ ~Gt(x, y)

Sentinel == <<100000, 1>>

DimensionErrors ==
    {"ValueError: variables do not have the same length",
     "ValueError: variables do not have the same number of columns"}


(***************************************************************************)
(* C1: whenever the six arrays do not share one row count, or L_b, L and w *)
(* do not share one column count, the call raises the dimension-mismatch   *)
(* ValueError: from entry only a raise can be taken, and the iteration     *)
(* state (A_hat, O_total, count) is never created, no pass is executed and *)
(* nothing is returned.                                                    *)
(***************************************************************************)
Thm_C1 ==
    ~WellShaped(df) =>
        /\ pc = "extracted" =>
              /\ ENABLED (RaiseRowMismatch \/ RaiseColMismatch)
              /\ ~ENABLED (Prepare \/ PrepareNoRow)
        /\ pc \in {"extracted", "raised"}
        /\ pc = "raised" => err \in DimensionErrors
        /\ A_hat = Unset /\ O_total = Unset /\ count = 0
        /\ Passes = 0
        /\ ret = Unset

Witness_C1 ==
    /\ SameRowCount(df) /\ ~SameColCount(df)
    /\ df.w.ncol # df.L.ncol
    /\ pc = "raised"
    /\ err = "ValueError: variables do not have the same number of columns"

(***************************************************************************)
(* C2: for tables of positive finite values, row 0 of A_hat is 1 in every  *)
(* state of the loop (after the first guess and after every damped         *)
(* update), and so is the first element of the returned vector.            *)
(***************************************************************************)
Thm_C2 ==
    (pc \in {"loop", "returned"} /\ Positive(df)) =>
        /\ \A t \in 1..Theta : A_hat[1][t] = <<1, 1>>
        /\ pc = "returned" => ret[1] = <<1, 1>>

Witness_C2 ==
    /\ pc = "returned"
    /\ Positive(df)
    /\ Passes >= 2
    /\ args.exp_xi = 2
    /\ ret[1] = <<1, 1>>
    /\ \E j \in 1..Len(ret) : ret[j] # <<1, 1>>

Orig_C5 ==
    (Finished /\ Passes >= 1 /\ Passes = args.maxiter /\ Gt(O_total, args.tolerance)) =>
        (pc = "returned" /\ err = "" /\ ret = [j \in 1..J |-> A_hat[j][1]])

(***************************************************************************)
(* C5 amended: when maxiter passes have been executed, the last O_total is *)
(* still greater than tolerance and the table has at least one Theta       *)
(* column, the call raises nothing and returns column 0 of the current     *)
(* A_hat, which every pass sets to conv * A_hat_up + (1 - conv) * A_hat.   *)
(***************************************************************************)
Thm_C5 ==
    [][ /\ Passes' = Passes + 1 =>
              \A j \in 1..J : \A t \in 1..Theta :
                  A_hat'[j][t] = Add(Mul(args.conv, A_hat_up'[j][t]),
                                     Mul(Sub(<<1, 1>>, args.conv), A_hat[j][t]))
        /\ (Finished' /\ Passes' >= 1 /\ Passes' = args.maxiter
              /\ Gt(O_total', args.tolerance) /\ Theta' >= 1) =>
              /\ pc' = "returned"
              /\ err' = ""
              /\ A_hat' = A_hat
              /\ ret' = [j \in 1..J |-> A_hat[j][1]] ]_vars

Witness_C5 ==
    /\ pc = "returned"
    /\ Passes = args.maxiter
    /\ Passes >= 2
    /\ Le(<<0, 1>>, args.tolerance)
    /\ Gt(O_total, args.tolerance)
    /\ args.conv = <<1, 2>>
    /\ ~AllOnes(ret)
    /\ ret = [j \in 1..J |-> A_hat[j][1]]

Thm_C7 ==
    (first # Unset /\ Finished) =>
        /\ first.pc = pc
        /\ first.err = err
        /\ first.passes = Passes
        /\ first.ret = ret

Witness_C7 ==
    /\ first # Unset
    /\ pc = "returned"
    /\ Positive(df)
    /\ df.w # first.df.w
    /\ J >= 2
    /\ args.exp_xi = 2
    /\ Passes >= 2
    /\ ~AllOnes(ret)
    /\ first.ret = ret

(***************************************************************************)
(* C8 as stated: two calls whose tables agree on the prices and on column  *)
(* 0 of w, L and L_b execute the same number of passes and return the same *)
(* vector, whatever the other Theta columns hold.  (Stated here for tables *)
(* of positive finite values.)                                             *)
(***************************************************************************)
Orig_C8 ==
    (/\ first # Unset /\ Finished
     /\ WellShaped(df) /\ NonEmpty(df) /\ Positive(df)
     /\ WellShaped(first.df) /\ NonEmpty(first.df) /\ Positive(first.df)) =>
        /\ first.passes = Passes
        /\ first.ret = ret

(***************************************************************************)
(* C9 as stated: whenever the call returns after at least one pass, the    *)
(* last O_total is <= tolerance or exactly maxiter passes were executed.   *)
(***************************************************************************)
Orig_C9 ==
    (pc = "returned" /\ Passes >= 1) =>
        (Le(O_total, args.tolerance) \/ Passes = args.maxiter)

(***************************************************************************)
(* C9 amended: from a loop state the next step is a pass if and only if    *)
(* O_total is strictly greater than tolerance and fewer than maxiter       *)
(* passes have been executed; each pass sets O_total to the sum over all   *)
(* cells of |A_hat_up - A_hat| divided by J, with A_hat the guess before   *)
(* the damped update; whenever the call returns after at least one pass,   *)
(* the last O_total is not greater than tolerance (it is <= tolerance, or  *)
(* NaN) or exactly maxiter passes were executed.                           *)
(***************************************************************************)
Thm_C9 ==
    [][ /\ pc = "loop" =>
              ((Passes' = Passes + 1) <=>
                   (Gt(O_total, args.tolerance) /\ Passes < args.maxiter))
        /\ Passes' = Passes + 1 =>
              O_total' =
                  Div(SumSeq([j \in 1..J |->
                          SumSeq([t \in 1..Theta |->
                              Abs(Sub(A_hat_up'[j][t], A_hat[j][t]))])]),
                      <<J, 1>>)
        /\ (pc' = "returned" /\ Passes' >= 1) =>
              (~Gt(O_total', args.tolerance) \/ Passes' = args.maxiter) ]_vars

Witness_C9 ==
    /\ pc = "returned"
    /\ J >= 2
    /\ Passes >= 1
    /\ Passes < args.maxiter
    /\ Le(O_total, args.tolerance)
    /\ Gt(O_total, <<0, 1>>)
    /\ ~AllOnes(ret)

(***************************************************************************)
(* C10 as stated: when maxiter < 1 or tolerance >= 100000 the loop body is *)
(* never executed and the call returns the untouched first guess, a vector *)
(* of J ones, without raising, whatever the data.  (Stated here for tables *)
(* that pass the dimension checks.)                                        *)
(***************************************************************************)
Orig_C10 ==
    (WellShaped(df) /\ (args.maxiter < 1 \/ Le(Sentinel, args.tolerance)) /\ Finished) =>
        /\ pc = "returned"
        /\ Passes = 0
        /\ AllOnes(ret) /\ Len(ret) = Len(df.L_b.v)

(***************************************************************************)
(* C10 amended: when maxiter < 1 or tolerance >= 100000 the loop body is   *)
(* never executed; if the table passes the dimension checks and has at     *)
(* least one row and one Theta column, the call returns the untouched      *)
(* first guess, a vector of J ones, without raising, whatever the values   *)
(* of the table.                                                           *)
(***************************************************************************)
Thm_C10 ==
    (WellShaped(df) /\ (args.maxiter < 1 \/ Le(Sentinel, args.tolerance))) =>
        /\ Passes = 0
        /\ A_hat_up = Unset
        /\ (Finished /\ NonEmpty(df)) =>
              /\ pc = "returned"
              /\ err = ""
              /\ AllOnes(ret) /\ Len(ret) = Len(df.L_b.v)
              /\ \A j \in 1..J : \A t \in 1..Theta : A_hat[j][t] = <<1, 1>>

Witness_C10 ==
    /\ WellShaped(df) /\ NonEmpty(df)
    /\ ~Positive(df)
    /\ Len(df.L_b.v) >= 2
    /\ args.maxiter >= 1
    /\ args.tolerance = Sentinel
    /\ pc = "returned"
    /\ Passes = 0
    /\ AllOnes(ret)

=============================================================================
